---- MODULE Spec2Model ----
(***************************************************************************)
(* Job controller of LandingPDFSnap: the in-memory job store (MemStorage), *)
(* the submit / cancel route handlers, the background routine generatePdfs *)
(* and cancelJob, with the registry of active browsers.                    *)
(*                                                                         *)
(* Scheduling.  The server is one Node.js event loop.  A flow (a route     *)
(* handler, generatePdfs, cancelJob) runs without interruption up to its   *)
(* next `await`.  An await on a MemStorage method (an async function with  *)
(* no await of its own) resumes in the microtask drain of the same task;   *)
(* an await on the file system or on the browser resumes in a later task.  *)
(* A flow whose position is in MicroPcs is waiting in the microtask queue. *)
(* A new task (an HTTP request, an I/O completion) is taken only when the  *)
(* microtask queue is empty, with one exception: when a browser goes away  *)
(* every promise pending on it is settled together, so completions on a    *)
(* closed browser may be delivered while other continuations are queued.   *)
(* The order of queued continuations is left open.                         *)
(***************************************************************************)
EXTENDS Integers, Sequences, FiniteSets, TLC

\* ---------------------------------------------------------------- bounds
MaxUrls == 2
MaxCalls == 2

\* The job ids randomUUID hands out, and an id no job ever has.  The store
\* and the registry are maps keyed by job id; one job is submitted here.
JobIds == {"job-1"}
\* The ids of two jobs, where two are looked at.
StoreIds == {"job-1", "job-2"}
CancelIds == JobIds \cup {"job-x"}
CallIds == 1..MaxCalls
\* The submitted lists: n URLs, alternating between two pages.
UrlAt(i) == IF i % 2 = 1 THEN "https://a.example" ELSE "https://b.example"
UrlLists == {[i \in 1..n |-> UrlAt(i)] : n \in 1..MaxUrls}

\* ------------------------------------------------------ program constants
SentinelPath == "/Downloads/pdfs"
DefaultPath == "./generated-pdfs"
Paths == {SentinelPath, "/tmp/out"}

VARIABLES
    store,          \* MemStorage.pdfJobs: jobId -> record (a partial map)
    activeBrowsers, \* the registry: set of jobIds that have an entry
    browser,        \* per job, its browser process: "none" | "open" | "closed"
    sub,            \* per job, the locals and position of the generate route handler
    gen,            \* per job, the locals and position of generatePdfs
    calls,          \* per call slot, the locals and position of one cancelJob
    reply,          \* the last reply of the status route or of a rejected submit
    namer,          \* the clock and the file names, as SpecNames follows them
    scroll,         \* the locals of autoScroll inside the page, as SpecScroll follows them
    client          \* the browser tab: the processing view and the flows of api.ts

vars == <<store, activeBrowsers, browser, sub, gen, calls, reply, namer, scroll, client>>

\* ------------------------------------------------------------ job store
\* `undefined`, as returned by Map.get for a missing key.
Undefined == [f \in {} |-> f]
\* new Map(): no job.
NoJobs == [j \in {} |-> j]

\* MemStorage.getPdfJob
getPdfJob(s, jobId) == IF jobId \in DOMAIN s THEN s[jobId] ELSE Undefined

\* { ...job, ...updates }: the keys of updates overwrite, the others stay.
Spread(job, updates) ==
    [f \in DOMAIN job \cup DOMAIN updates |->
        IF f \in DOMAIN updates THEN updates[f] ELSE job[f]]

\* Mutant of updatePdfJob: the record is replaced by the updates.
updatePdfJobReplace(s, jobId, updates) ==
    IF jobId \in DOMAIN s
    THEN [s EXCEPT ![jobId] = updates]
    ELSE s

\* MemStorage.updatePdfJob: no record is created for a missing key.
updatePdfJob(s, jobId, updates) ==
    IF jobId \in DOMAIN s
    THEN [s EXCEPT ![jobId] = Spread(s[jobId], updates)]
    ELSE s

\* new Date().toISOString() as read by createPdfJob: one instant, whose
\* value no step of the program looks at.
CreationTime == "2026-01-01T00:00:00.000Z"

\* MemStorage.createPdfJob: the record holds the keys of insertJob, id and
\* createdAt (successCount and failCount are not among them).  No record is
\* ever deleted and no user is created, so currentId is the number of
\* records plus one.
createPdfJob(s, insertJob) ==
    [k \in DOMAIN s \cup {insertJob.jobId} |->
        IF k = insertJob.jobId
        THEN Spread(insertJob, [id |-> Cardinality(DOMAIN s) + 1,
                                createdAt |-> CreationTime])
        ELSE s[k]]

\* The urlStatuses built by the generate route: an entry per URL, in order.
\* error is the set of messages on the entry: {} when the key is missing or
\* undefined (both serialise to no key).
InitialUrlStatuses(urls) ==
    [i \in 1..Len(urls) |-> [url |-> urls[i], status |-> "pending", error |-> {}]]

\* Mutant of NewJob: the record is created as already processing.
NewJobProcessing(jobId, urls, outputPath) ==
    [jobId |-> jobId, urls |-> urls, outputPath |-> outputPath,
     status |-> "processing", completed |-> FALSE,
     urlStatuses |-> InitialUrlStatuses(urls)]

\* The record the generate route hands to createPdfJob.
NewJob(jobId, urls, outputPath) ==
    [jobId |-> jobId, urls |-> urls, outputPath |-> outputPath,
     status |-> "pending", completed |-> FALSE,
     urlStatuses |-> InitialUrlStatuses(urls)]

\* ------------------------------------------------ helpers of generatePdfs
\* Mutant of updateJobStatus: only `completed` counts as finished.
updateJobStatusCompletedOnly(s, jobId, job, status) ==
    IF job # Undefined
    THEN updatePdfJob(s, jobId,
            Spread(job, [status |-> status, completed |-> (status = "completed")]))
    ELSE s

\* updateJobStatus, the part after `await storage.getPdfJob`: job is the
\* record read on entry.  The error argument is not used.
updateJobStatus(s, jobId, job, status) ==
    IF job # Undefined
    THEN updatePdfJob(s, jobId,
            Spread(job, [status |-> status,
                         completed |-> (status = "completed" \/ status = "failed")]))
    ELSE s

\* Mutant of updateUrlStatus: the new entry is pushed instead of replacing
\* the entry at urlIndex.
updateUrlStatusPush(s, jobId, job, urlIndex, status, error) ==
    IF job # Undefined /\ "urlStatuses" \in DOMAIN job
       /\ urlIndex >= 0 /\ urlIndex < Len(job.urlStatuses)
    THEN updatePdfJob(s, jobId,
            Spread(job, [urlStatuses |->
                Append(job.urlStatuses,
                       Spread(job.urlStatuses[urlIndex + 1],
                              [status |-> status, error |-> error]))]))
    ELSE s

\* Mutant of updateUrlStatus: the entry after urlIndex is rewritten.
updateUrlStatusNextEntry(s, jobId, job, urlIndex, status, error) ==
    IF job # Undefined /\ "urlStatuses" \in DOMAIN job
       /\ urlIndex >= 0 /\ urlIndex < Len(job.urlStatuses)
    THEN updatePdfJob(s, jobId,
            Spread(job, [urlStatuses |->
                [i \in 1..Len(job.urlStatuses) |->
                    IF i = urlIndex + 2
                    THEN Spread(job.urlStatuses[i],
                                [status |-> status, error |-> error])
                    ELSE job.urlStatuses[i]]]))
    ELSE s

\* Mutant of updateUrlStatus: the error argument is dropped.
updateUrlStatusNoError(s, jobId, job, urlIndex, status, error) ==
    IF job # Undefined /\ "urlStatuses" \in DOMAIN job
       /\ urlIndex >= 0 /\ urlIndex < Len(job.urlStatuses)
    THEN updatePdfJob(s, jobId,
            Spread(job, [urlStatuses |->
                [job.urlStatuses EXCEPT ![urlIndex + 1] =
                    Spread(@, [status |-> status])]]))
    ELSE s

\* updateUrlStatus, the part after `await storage.getPdfJob`.  urlIndex is
\* 0-based as in the code; sequences here are 1-based.
updateUrlStatus(s, jobId, job, urlIndex, status, error) ==
    IF job # Undefined /\ "urlStatuses" \in DOMAIN job
       /\ urlIndex >= 0 /\ urlIndex < Len(job.urlStatuses)
    THEN updatePdfJob(s, jobId,
            Spread(job, [urlStatuses |->
                [job.urlStatuses EXCEPT ![urlIndex + 1] =
                    Spread(@, [status |-> status, error |-> error])]]))
    ELSE s

\* Mutant of FinalWrite: the completed flag is not set.
FinalWriteNoFlag(s, jobId, job, successCount, failCount, outputPath) ==
    IF job # Undefined
    THEN updatePdfJob(s, jobId,
            Spread(job, [status |-> "completed",
                         successCount |-> successCount, failCount |-> failCount,
                         outputPath |-> outputPath]))
    ELSE s

\* The final write of generatePdfs (lines 135-145).
FinalWrite(s, jobId, job, successCount, failCount, outputPath) ==
    IF job # Undefined
    THEN updatePdfJob(s, jobId,
            Spread(job, [status |-> "completed", completed |-> TRUE,
                         successCount |-> successCount, failCount |-> failCount,
                         outputPath |-> outputPath]))
    ELSE s

\* Mutant of CancelWrite: the write stamps the record anew.
CancelWriteRestamps(s, jobId, job) ==
    updatePdfJob(s, jobId, Spread(job, [status |-> "cancelled", completed |-> TRUE,
                                        createdAt |-> "2026-01-01T00:00:01.000Z"]))

\* The record write of cancelJob (lines 211-215), from the record read on entry.
CancelWrite(s, jobId, job) ==
    updatePdfJob(s, jobId, Spread(job, [status |-> "cancelled", completed |-> TRUE]))

\* Mutant of CancelRefused: the completed flag is not looked at.
CancelRefusedUnknownOnly(job) == job = Undefined

\* The guard of cancelJob (line 194): nothing to cancel.
CancelRefused(job) == IF job = Undefined THEN TRUE ELSE job.completed

\* The effective output directory (lines 25-28).
EffectivePath(outputPath) ==
    IF outputPath = "" \/ outputPath = SentinelPath THEN DefaultPath ELSE outputPath

\* ------------------------------------------------------------ positions
\* generatePdfs: urls and outputPath are its parameters, browser whether the
\* local `browser` is set, job the record last read by a helper, doomed
\* whether the pending browser operation was started on a closed browser,
\* contexts the loop indexes whose browser.newContext has resolved and whose
\* context.close has not been called to completion, files the loop indexes
\* whose output file is on disk, fileCheck what fs.existsSync(filePath)
\* returned for the current URL ("none" outside lines 113-125).
GenIdle == [pc |-> "idle", urls |-> <<>>, outputPath |-> "", browser |-> FALSE,
            i |-> 0, successCount |-> 0, failCount |-> 0, job |-> Undefined,
            doomed |-> FALSE, contexts |-> {}, files |-> {}, fileCheck |-> "none"]
SubIdle == [pc |-> "none", urls |-> <<>>, outputPath |-> ""]
\* cancelJob: jobId is its parameter, job the record read on entry, closed
\* whether its browser.close has resolved, result what it returned.  procAt
\* is not a local: it remembers the 0-based index of the URL that was
\* `processing` in the record when the call was made (-1 when none).
CallIdle == [pc |-> "idle", jobId |-> "", job |-> Undefined, closed |-> FALSE,
             result |-> FALSE, procAt |-> 0 - 1]

\* Positions at which a flow waits in the microtask queue.
GenMicroPcs == {"ujsProcW", "ujsProcR", "ujsDirW", "ujsDirR", "ujsFailW", "ujsFailR",
                "uusProcW", "uusProcR", "uusDoneW", "uusDoneR", "uusFailW", "uusFailR",
                "finW", "finR"}
CallMicroPcs == {"got", "upd"}

MicroPending ==
    \/ \E j \in DOMAIN gen : gen[j].pc \in GenMicroPcs \/ sub[j].pc = "created"
    \/ \E k \in CallIds : calls[k].pc \in CallMicroPcs

\* A new task may start.
TaskOK == ~MicroPending
\* A completion on job j's browser may be delivered.
BrowserTaskOK(j) == ~MicroPending \/ browser[j] = "closed"

\* ------------------------------------------------------- request bodies
\* What a client may send as `urls` and `outputPath`: the well-formed lists,
\* the empty list, lists with one string that is no URL, and the empty path.
NotAUrl == "not a url"
RawUrlLists ==
    UrlLists \cup {<<>>}
    \cup {[i \in 1..n |-> IF i = b THEN NotAUrl ELSE UrlAt(i)] :
             n \in 1..MaxUrls, b \in 1..MaxUrls}
RawPaths == Paths \cup {""}

\* z.string().url() on the strings above: the two page addresses parse.
IsUrl(str) == str \in {"https://a.example", "https://b.example"}

\* Mutant of generatePdfSchema: the .min(1) of urls is missing.
generatePdfSchemaNoMin(urls, outputPath) ==
    /\ \A i \in 1..Len(urls) : IsUrl(urls[i])
    /\ outputPath # ""

\* generatePdfSchema.parse succeeds.
generatePdfSchema(urls, outputPath) ==
    /\ Len(urls) >= 1
    /\ \A i \in 1..Len(urls) : IsUrl(urls[i])
    /\ outputPath # ""

\* No reply sent yet.
NoReply == [op |-> "none"]

\* ------------------------------------------------------------- file names
\* A URL as the pieces the file-name code looks at: scheme, an optional
\* "www.", the host, the rest.
NameHosts == {"a.example", "b.example"}
NameUrls ==
    {<<"https://">> \o w \o <<h, "/">> : w \in {<<>>, <<"www.">>}, h \in NameHosts}
NameUrlLists == UNION {[1..n -> NameUrls] : n \in 1..MaxUrls}

\* url.replace(/^https?:\/\//, '').replace(/^www\./, '').split('/')[0]
StripScheme(url) ==
    IF url # <<>> /\ Head(url) \in {"http://", "https://"} THEN Tail(url) ELSE url
StripWww(url) == IF url # <<>> /\ Head(url) = "www." THEN Tail(url) ELSE url
Domain(url) == Head(StripWww(StripScheme(url)))

\* new Date().toISOString().replace(/[:.]/g, '-') of a clock reading in
\* milliseconds: the seconds and the milliseconds within the second.
Timestamp(t) == <<t \div 1000, t % 1000>>

\* Mutant of FileName: the domain alone names the file.
FileNameDomainOnly(url, t) == <<Domain(url), Timestamp(0)>>

\* `${domain}_${timestamp}.pdf`
FileName(url, t) == <<Domain(url), Timestamp(t)>>

\* page.waitForTimeout(2000) and page.waitForTimeout(1000).
WaitAfterLoad == 2000
WaitAfterScroll == 1000
\* How many times the clock is seen to move by one millisecond besides the waits.
MaxTicks == 2

\* The loop of generatePdfs as far as file names go: urls the list, i the
\* loop index, now the clock in milliseconds since the loop began, timerEnd
\* when the pending wait is over, ticks the clock moves counted so far,
\* names the file names built so far, written the loop indexes whose file
\* was written, overwritten whether a write hit an existing file of the job.
\* Before the loop there is none of them.
NamerIdle == [pc |-> "idle"]
NamerBegin == [pc |-> "name", urls |-> <<>>, i |-> 0, now |-> 0, timerEnd |-> 0,
               ticks |-> 0, names |-> <<>>, written |-> {}, overwritten |-> FALSE]

\* autoScroll is not running.
ScrollIdle == [pc |-> "idle"]

\* No processing view is mounted.
ClientIdle == [pc |-> "idle"]
\* The browser tab once ProcessingCard is mounted.  view is Home's
\* processingStatus; urls, outputPath and urlStatuses are the props; pc is
\* the position of processUrls / generatePdfs / pollJobStatus; apiJobId is
\* the jobId local of api.ts generatePdfs, jobId the React state of
\* ProcessingCard ("" for undefined), cleanupJobId the jobId the effect's
\* cleanup closure holds; isCancelled is the module variable of api.ts;
\* isDone, result and status are the locals of pollJobStatus; cancelPc is
\* the position of handleCancel, toast the toast shown, cancelSent the job
\* ids of the cancel requests sent, onCompleteCalls the arguments of the
\* calls of onComplete.  clicks is not a state of the program: it counts
\* the activations of the Cancel button.
ClientBegin ==
    [pc |-> "genSent", view |-> "processing", urls |-> <<>>, outputPath |-> "",
     urlStatuses |-> <<>>, currentIndex |-> 0, apiJobId |-> "", jobId |-> "",
     cleanupJobId |-> "", isCancelled |-> FALSE, isDone |-> FALSE,
     result |-> [successCount |-> 0, failCount |-> 0], status |-> Undefined,
     cancelPc |-> "idle", toast |-> "none", cancelSent |-> <<>>,
     onCompleteCalls |-> <<>>, clicks |-> 0]

Init ==
    /\ reply = NoReply
    /\ namer = NamerIdle
    /\ scroll = ScrollIdle
    /\ client = ClientIdle
    /\ store = NoJobs
    /\ activeBrowsers = {}
    /\ browser = [j \in JobIds |-> "none"]
    /\ sub = [j \in JobIds |-> SubIdle]
    /\ gen = [j \in JobIds |-> GenIdle]
    /\ calls = [k \in CallIds |-> CallIdle]

\* ------------------------------------------------- POST /api/pdf/generate
\* routes.ts 17, 44-47: generatePdfSchema.parse throws, the reply is 400.
SubmitReject(urls, outputPath) ==
    /\ TaskOK
    /\ ~generatePdfSchema(urls, outputPath)
    /\ reply' = [op |-> "generate", code |-> 400, urls |-> urls,
                 outputPath |-> outputPath]
    /\ UNCHANGED <<store, activeBrowsers, browser, sub, gen, calls, namer, scroll, client>>

\* routes.ts 17-36: the validated request, the fresh job id, createPdfJob.
Submit(j, urls, outputPath) ==
    /\ sub[j].pc = "none"
    /\ j \notin DOMAIN store
    /\ TaskOK
    /\ generatePdfSchema(urls, outputPath)
    /\ store' = createPdfJob(store, NewJob(j, urls, outputPath))
    /\ sub' = [sub EXCEPT ![j] = [pc |-> "created", urls |-> urls,
                                  outputPath |-> outputPath]]
    /\ UNCHANGED <<activeBrowsers, browser, gen, calls, reply, namer, scroll, client>>

\* The part of generatePdfs that runs inside the caller (lines 16-30): the
\* effective output path, and mkdir is pending.
GenStart(urls, outputPath) ==
    [GenIdle EXCEPT !.pc = "mkdir", !.urls = urls,
                    !.outputPath = EffectivePath(outputPath)]

\* routes.ts 39-42: generatePdfs is called and runs to its first await,
\* then the job id is sent back.
SubmitReturn(j) ==
    /\ sub[j].pc = "created"
    /\ gen' = [gen EXCEPT ![j] = GenStart(sub[j].urls, sub[j].outputPath)]
    /\ sub' = [sub EXCEPT ![j].pc = "returned"]
    /\ UNCHANGED <<store, activeBrowsers, browser, calls, reply, namer, scroll, client>>

\* ----------------------------------------------------------- generatePdfs
\* A helper (updateJobStatus, updateUrlStatus) or the final block is
\* entered: the record is read, the flow waits one microtask.
Enter(g, j, pc) == [g EXCEPT !.pc = pc, !.job = getPdfJob(store, j)]

\* The 0-based index of the entry that is `processing` in a record, -1 if none.
ProcessingIndex(job) ==
    IF job = Undefined THEN 0 - 1
    ELSE IF \E i \in 1..Len(job.urlStatuses) : job.urlStatuses[i].status = "processing"
         THEN (CHOOSE i \in 1..Len(job.urlStatuses) :
                  job.urlStatuses[i].status = "processing") - 1
         ELSE 0 - 1

\* A browser operation is started; it cannot succeed on a closed browser.
Start(g, j, pc) == [g EXCEPT !.pc = pc, !.doomed = (browser[j] = "closed")]

\* The head of the for loop (line 55) with the loop index set to i.
\* Either browser.newContext is started (line 60) or the loop is left and
\* the final block reads the record (line 135).
LoopHead(g, j, i) ==
    IF i < Len(g.urls)
    THEN Start([g EXCEPT !.i = i], j, "newContext")
    ELSE Enter([g EXCEPT !.i = i], j, "finW")

\* The outer catch (lines 146-150): updateJobStatus(jobId, "failed") is entered.
OuterCatch(j) == Enter(gen[j], j, "ujsFailW")

\* fs.promises.mkdir resolves: updateJobStatus(jobId, "processing") is entered.
MkdirOk(j) ==
    /\ gen[j].pc = "mkdir"
    /\ TaskOK
    /\ gen' = [gen EXCEPT ![j] = Enter(gen[j], j, "ujsProcW")]
    /\ UNCHANGED <<store, activeBrowsers, browser, sub, calls, reply, namer, scroll, client>>

\* fs.promises.mkdir rejects (lines 32-35).
MkdirFail(j) ==
    /\ gen[j].pc = "mkdir"
    /\ TaskOK
    /\ gen' = [gen EXCEPT ![j] = Enter(gen[j], j, "ujsDirW")]
    /\ UNCHANGED <<store, activeBrowsers, browser, sub, calls, reply, namer, scroll, client>>

\* updateJobStatus writes (lines 224-230), from the three places it is called.
JobStatusWrite(j) ==
    /\ gen[j].pc \in {"ujsProcW", "ujsDirW", "ujsFailW"}
    /\ store' = updateJobStatus(store, j, gen[j].job,
                    IF gen[j].pc = "ujsProcW" THEN "processing" ELSE "failed")
    /\ gen' = [gen EXCEPT ![j].job = Undefined, ![j].pc =
                    CASE gen[j].pc = "ujsProcW" -> "ujsProcR"
                      [] gen[j].pc = "ujsDirW" -> "ujsDirR"
                      [] OTHER -> "ujsFailR"]
    /\ UNCHANGED <<activeBrowsers, browser, sub, calls, reply, namer, scroll, client>>

\* Back from updateJobStatus(jobId, "processing"): chromium.launch is started.
ProcessingReturn(j) ==
    /\ gen[j].pc = "ujsProcR"
    /\ gen' = [gen EXCEPT ![j].pc = "launch"]
    /\ UNCHANGED <<store, activeBrowsers, browser, sub, calls, reply, namer, scroll, client>>

\* Mutant of DirFailReturn: the return is missing, the launch follows.
DirFailFallsThrough(j) ==
    /\ gen[j].pc = "ujsDirR"
    /\ gen' = [gen EXCEPT ![j].pc = "launch"]
    /\ UNCHANGED <<store, activeBrowsers, browser, sub, calls, reply, namer, scroll, client>>

\* Back from the updateJobStatus of the mkdir catch: return (line 35); the
\* finally block finds no browser.
DirFailReturn(j) ==
    /\ gen[j].pc = "ujsDirR"
    /\ gen' = [gen EXCEPT ![j].pc = "done"]
    /\ UNCHANGED <<store, activeBrowsers, browser, sub, calls, reply, namer, scroll, client>>

\* chromium.launch resolves (lines 42-63): the browser is registered, the
\* counters start at zero and the loop is entered.
LaunchOk(j) ==
    /\ gen[j].pc = "launch"
    /\ TaskOK
    /\ browser' = [browser EXCEPT ![j] = "open"]
    /\ activeBrowsers' = activeBrowsers \cup {j}
    /\ gen' = [gen EXCEPT ![j] =
                 LoopHead([gen[j] EXCEPT !.browser = TRUE, !.successCount = 0,
                                         !.failCount = 0], j, 0)]
    /\ UNCHANGED <<store, sub, calls, reply, namer, scroll, client>>

\* Mutant of LaunchFail: the rejection is swallowed, nothing is written.
LaunchFailSilent(j) ==
    /\ gen[j].pc = "launch"
    /\ TaskOK
    /\ gen' = [gen EXCEPT ![j].pc = "done"]
    /\ UNCHANGED <<store, activeBrowsers, browser, sub, calls, reply, namer, scroll, client>>

\* chromium.launch rejects: the outer catch.
LaunchFail(j) ==
    /\ gen[j].pc = "launch"
    /\ TaskOK
    /\ gen' = [gen EXCEPT ![j] = OuterCatch(j)]
    /\ UNCHANGED <<store, activeBrowsers, browser, sub, calls, reply, namer, scroll, client>>

\* browser.newContext resolves: context.newPage is started (line 63).
NewContextOk(j) ==
    /\ gen[j].pc = "newContext"
    /\ ~gen[j].doomed
    /\ BrowserTaskOK(j)
    /\ gen' = [gen EXCEPT ![j] =
                 Start([gen[j] EXCEPT !.contexts = @ \cup {gen[j].i}], j, "newPage")]
    /\ UNCHANGED <<store, activeBrowsers, browser, sub, calls, reply, namer, scroll, client>>

\* context.newPage resolves: the try block is entered and
\* updateUrlStatus(jobId, i, "processing") is called (line 67).
NewPageOk(j) ==
    /\ gen[j].pc = "newPage"
    /\ ~gen[j].doomed
    /\ BrowserTaskOK(j)
    /\ gen' = [gen EXCEPT ![j] = Enter(gen[j], j, "uusProcW")]
    /\ UNCHANGED <<store, activeBrowsers, browser, sub, calls, reply, namer, scroll, client>>

\* browser.newContext or context.newPage rejects: both are outside the
\* per-URL try, so the outer catch runs.
ContextFail(j) ==
    /\ gen[j].pc \in {"newContext", "newPage"}
    /\ BrowserTaskOK(j)
    /\ gen' = [gen EXCEPT ![j] = OuterCatch(j)]
    /\ UNCHANGED <<store, activeBrowsers, browser, sub, calls, reply, namer, scroll, client>>

\* updateUrlStatus writes (lines 242-256), from the three places it is called.
UrlStatusWrite(j) ==
    /\ gen[j].pc \in {"uusProcW", "uusDoneW", "uusFailW"}
    /\ store' = updateUrlStatus(store, j, gen[j].job, gen[j].i,
                    CASE gen[j].pc = "uusProcW" -> "processing"
                      [] gen[j].pc = "uusDoneW" -> "complete"
                      [] OTHER -> "failed",
                    IF gen[j].pc = "uusFailW" THEN {"error"} ELSE {})
    /\ gen' = [gen EXCEPT ![j].job = Undefined, ![j].pc =
                    CASE gen[j].pc = "uusProcW" -> "uusProcR"
                      [] gen[j].pc = "uusDoneW" -> "uusDoneR"
                      [] OTHER -> "uusFailR"]
    /\ UNCHANGED <<activeBrowsers, browser, sub, calls, reply, namer, scroll, client>>

\* Back from updateUrlStatus(jobId, i, "processing"): the file name is built
\* and page.goto is started (lines 71-82).
UrlProcessingReturn(j) ==
    /\ gen[j].pc = "uusProcR"
    /\ gen' = [gen EXCEPT ![j] = Start(gen[j], j, "goto")]
    /\ UNCHANGED <<store, activeBrowsers, browser, sub, calls, reply, namer, scroll, client>>

\* The page operations of one URL, in order (lines 79-110).
NextPageStep(pc) ==
    CASE pc = "goto" -> "wait1"
      [] pc = "wait1" -> "scroll"
      [] pc = "scroll" -> "wait2"
      [] pc = "wait2" -> "pdf"

\* page.goto, page.waitForTimeout or autoScroll resolves: the next one is started.
PageStepOk(j) ==
    /\ gen[j].pc \in {"goto", "wait1", "scroll", "wait2"}
    /\ ~gen[j].doomed
    /\ BrowserTaskOK(j)
    /\ gen' = [gen EXCEPT ![j] = Start(gen[j], j, NextPageStep(gen[j].pc))]
    /\ UNCHANGED <<store, activeBrowsers, browser, sub, calls, reply, namer, scroll, client>>

\* page.pdf resolves, the file was written and fs.existsSync finds it
\* (lines 100-116): updateUrlStatus(jobId, i, "complete") is entered.
PdfOk(j) ==
    /\ gen[j].pc = "pdf"
    /\ ~gen[j].doomed
    /\ BrowserTaskOK(j)
    /\ gen' = [gen EXCEPT ![j] =
                 Enter([gen[j] EXCEPT !.files = @ \cup {gen[j].i},
                                      !.fileCheck = "exists"], j, "uusDoneW")]
    /\ UNCHANGED <<store, activeBrowsers, browser, sub, calls, reply, namer, scroll, client>>

\* Mutant of PageStepFail: the failure reaches the outer catch.
PageStepFailAborts(j) ==
    /\ gen[j].pc \in {"goto", "wait1", "scroll", "wait2", "pdf"}
    /\ BrowserTaskOK(j)
    /\ gen' = [gen EXCEPT ![j] = Enter(gen[j], j, "ujsFailW")]
    /\ UNCHANGED <<store, activeBrowsers, browser, sub, calls, reply, namer, scroll, client>>

\* Mutant of PdfNoFile: the file check is missing, the URL counts as done.
PdfNoFileUnchecked(j) ==
    /\ gen[j].pc = "pdf"
    /\ ~gen[j].doomed
    /\ BrowserTaskOK(j)
    /\ gen' = [gen EXCEPT ![j] =
                 Enter([gen[j] EXCEPT !.fileCheck = "missing"], j, "uusDoneW")]
    /\ UNCHANGED <<store, activeBrowsers, browser, sub, calls, reply, namer, scroll, client>>

\* page.pdf resolves and fs.existsSync finds no file (lines 113, 118-120):
\* the Error thrown at line 119 is caught at line 121, and
\* updateUrlStatus(jobId, i, "failed", message) is entered.
PdfNoFile(j) ==
    /\ gen[j].pc = "pdf"
    /\ ~gen[j].doomed
    /\ BrowserTaskOK(j)
    /\ gen' = [gen EXCEPT ![j] =
                 Enter([gen[j] EXCEPT !.fileCheck = "missing"], j, "uusFailW")]
    /\ UNCHANGED <<store, activeBrowsers, browser, sub, calls, reply, namer, scroll, client>>

\* A page operation rejects: the per-URL catch enters
\* updateUrlStatus(jobId, i, "failed", message) (lines 121-124).
PageStepFail(j) ==
    /\ gen[j].pc \in {"goto", "wait1", "scroll", "wait2", "pdf"}
    /\ BrowserTaskOK(j)
    /\ gen' = [gen EXCEPT ![j] = Enter(gen[j], j, "uusFailW")]
    /\ UNCHANGED <<store, activeBrowsers, browser, sub, calls, reply, namer, scroll, client>>

\* Mutant of UrlDoneReturn: no finally block, the loop goes on at once.
UrlDoneReturnNoClose(j) ==
    /\ gen[j].pc \in {"uusDoneR", "uusFailR"}
    /\ gen' = [gen EXCEPT ![j] =
                 LoopHead([gen[j] EXCEPT
                    !.fileCheck = "none",
                    !.successCount = IF gen[j].pc = "uusDoneR" THEN @ + 1 ELSE @,
                    !.failCount = IF gen[j].pc = "uusFailR" THEN @ + 1 ELSE @],
                    j, gen[j].i + 1)]
    /\ UNCHANGED <<store, activeBrowsers, browser, sub, calls, reply, namer, scroll, client>>

\* Back from the updateUrlStatus of the try or the catch: the counter is
\* incremented, the try/catch is left and the finally block starts
\* context.close (lines 117-128).
UrlDoneReturn(j) ==
    /\ gen[j].pc \in {"uusDoneR", "uusFailR"}
    /\ gen' = [gen EXCEPT ![j] =
                 [gen[j] EXCEPT
                    !.pc = "ctxClose",
                    !.fileCheck = "none",
                    !.successCount = IF gen[j].pc = "uusDoneR" THEN @ + 1 ELSE @,
                    !.failCount = IF gen[j].pc = "uusFailR" THEN @ + 1 ELSE @]]
    /\ UNCHANGED <<store, activeBrowsers, browser, sub, calls, reply, namer, scroll, client>>

\* context.close resolves: i++ and the loop head.
CtxCloseOk(j) ==
    /\ gen[j].pc = "ctxClose"
    /\ BrowserTaskOK(j)
    /\ gen' = [gen EXCEPT ![j] =
                 LoopHead([gen[j] EXCEPT !.contexts = @ \ {gen[j].i}], j, gen[j].i + 1)]
    /\ UNCHANGED <<store, activeBrowsers, browser, sub, calls, reply, namer, scroll, client>>

\* context.close rejects inside the finally block: the outer catch.
CtxCloseFail(j) ==
    /\ gen[j].pc = "ctxClose"
    /\ BrowserTaskOK(j)
    /\ gen' = [gen EXCEPT ![j] =
                 [OuterCatch(j) EXCEPT !.contexts = @ \ {gen[j].i}]]
    /\ UNCHANGED <<store, activeBrowsers, browser, sub, calls, reply, namer, scroll, client>>

\* The final write (lines 136-145).
FinalWriteStep(j) ==
    /\ gen[j].pc = "finW"
    /\ store' = FinalWrite(store, j, gen[j].job, gen[j].successCount,
                           gen[j].failCount, gen[j].outputPath)
    /\ gen' = [gen EXCEPT ![j].pc = "finR", ![j].job = Undefined]
    /\ UNCHANGED <<activeBrowsers, browser, sub, calls, reply, namer, scroll, client>>

\* Mutant of Finally: the browser is closed after the final write only.
FinallyOnSuccessOnly(j) ==
    /\ gen[j].pc \in {"finR", "ujsFailR"}
    /\ IF gen[j].browser /\ gen[j].pc = "finR"
       THEN /\ browser' = [browser EXCEPT ![j] = "closed"]
            /\ gen' = [gen EXCEPT ![j].pc = "brClose"]
       ELSE /\ gen' = [gen EXCEPT ![j].pc = "done"]
            /\ UNCHANGED browser
    /\ UNCHANGED <<store, activeBrowsers, sub, calls, reply, namer, scroll, client>>

\* The finally block (lines 151-160) after the final write or after the
\* outer catch: browser.close is started when a browser was launched.
Finally(j) ==
    /\ gen[j].pc \in {"finR", "ujsFailR"}
    /\ IF gen[j].browser
       THEN /\ browser' = [browser EXCEPT ![j] = "closed"]
            /\ gen' = [gen EXCEPT ![j].pc = "brClose"]
       ELSE /\ gen' = [gen EXCEPT ![j].pc = "done"]
            /\ UNCHANGED browser
    /\ UNCHANGED <<store, activeBrowsers, sub, calls, reply, namer, scroll, client>>

\* browser.close resolves: the registry entry is deleted (line 156).
BrowserCloseOk(j) ==
    /\ gen[j].pc = "brClose"
    /\ BrowserTaskOK(j)
    /\ activeBrowsers' = activeBrowsers \ {j}
    /\ gen' = [gen EXCEPT ![j].pc = "done"]
    /\ UNCHANGED <<store, browser, sub, calls, reply, namer, scroll, client>>

\* browser.close rejects: logged, the delete is skipped (lines 157-159).
BrowserCloseFail(j) ==
    /\ gen[j].pc = "brClose"
    /\ BrowserTaskOK(j)
    /\ gen' = [gen EXCEPT ![j].pc = "done"]
    /\ UNCHANGED <<store, activeBrowsers, browser, sub, calls, reply, namer, scroll, client>>

\* -------------------------------------------------------------- cancelJob
\* POST /api/pdf/cancel calls cancelJob(jobId), which reads the record
\* (line 192) and waits one microtask.  Call slots are taken in order.
CancelCall(k, j) ==
    /\ calls[k].pc = "idle"
    /\ IF k = 1 THEN TRUE ELSE calls[k - 1].pc # "idle"
    /\ TaskOK
    /\ calls' = [calls EXCEPT ![k] = [CallIdle EXCEPT
                    !.pc = "got", !.jobId = j, !.job = getPdfJob(store, j),
                    !.procAt = ProcessingIndex(getPdfJob(store, j))]]
    /\ UNCHANGED <<store, activeBrowsers, browser, sub, gen, reply, namer, scroll, client>>

\* Lines 194-196: unknown or completed, return false.
CancelReject(k) ==
    /\ calls[k].pc = "got"
    /\ CancelRefused(calls[k].job)
    /\ calls' = [calls EXCEPT ![k].pc = "done", ![k].result = FALSE]
    /\ UNCHANGED <<store, activeBrowsers, browser, sub, gen, reply, namer, scroll, client>>

\* Mutant of CancelClose: every open browser is closed.
CancelCloseEvery(k) ==
    /\ calls[k].pc = "got"
    /\ ~CancelRefused(calls[k].job)
    /\ calls[k].jobId \in activeBrowsers
    /\ browser' = [j \in DOMAIN browser |->
                      IF browser[j] = "open" THEN "closed" ELSE browser[j]]
    /\ calls' = [calls EXCEPT ![k].pc = "closing"]
    /\ UNCHANGED <<store, activeBrowsers, sub, gen, reply, namer, scroll, client>>

\* Lines 199-203: a browser is registered, browser.close is started.
CancelClose(k) ==
    /\ calls[k].pc = "got"
    /\ ~CancelRefused(calls[k].job)
    /\ calls[k].jobId \in activeBrowsers
    /\ browser' = [browser EXCEPT ![calls[k].jobId] = "closed"]
    /\ calls' = [calls EXCEPT ![k].pc = "closing"]
    /\ UNCHANGED <<store, activeBrowsers, sub, gen, reply, namer, scroll, client>>

\* Lines 199-215 with no browser registered: the record write.
CancelNoBrowser(k) ==
    /\ calls[k].pc = "got"
    /\ ~CancelRefused(calls[k].job)
    /\ calls[k].jobId \notin activeBrowsers
    /\ store' = CancelWrite(store, calls[k].jobId, calls[k].job)
    /\ calls' = [calls EXCEPT ![k].pc = "upd", ![k].job = Undefined]
    /\ UNCHANGED <<activeBrowsers, browser, sub, gen, reply, namer, scroll, client>>

\* browser.close resolves: the entry is deleted (line 204), then the record
\* write (lines 211-215).
CancelCloseOk(k) ==
    /\ calls[k].pc = "closing"
    /\ activeBrowsers' = activeBrowsers \ {calls[k].jobId}
    /\ store' = CancelWrite(store, calls[k].jobId, calls[k].job)
    /\ calls' = [calls EXCEPT ![k].pc = "upd", ![k].closed = TRUE,
                             ![k].job = Undefined]
    /\ UNCHANGED <<browser, sub, gen, reply, namer, scroll, client>>

\* browser.close rejects: logged, the delete is skipped (lines 205-207),
\* then the record write.
CancelCloseFail(k) ==
    /\ calls[k].pc = "closing"
    /\ store' = CancelWrite(store, calls[k].jobId, calls[k].job)
    /\ calls' = [calls EXCEPT ![k].pc = "upd", ![k].job = Undefined]
    /\ UNCHANGED <<activeBrowsers, browser, sub, gen, reply, namer, scroll, client>>

\* Line 217: return true.
CancelReturn(k) ==
    /\ calls[k].pc = "upd"
    /\ calls' = [calls EXCEPT ![k].pc = "done", ![k].result = TRUE]
    /\ UNCHANGED <<store, activeBrowsers, browser, sub, gen, reply, namer, scroll, client>>

\* ------------------------------------------------ GET /api/pdf/status/:id
\* getJobStatus (lines 185-188): the record storage.getPdfJob returns.
getJobStatus(s, jobId) == getPdfJob(s, jobId)

\* Mutant of StatusCall: the record is removed once it has been read.
StatusCallRemoves(jobId) ==
    /\ TaskOK
    /\ reply' = [op |-> "status", jobId |-> jobId,
                 code |-> IF getJobStatus(store, jobId) = Undefined THEN 404 ELSE 200,
                 result |-> getJobStatus(store, jobId)]
    /\ store' = [k \in DOMAIN store \ {jobId} |-> store[k]]
    /\ UNCHANGED <<activeBrowsers, browser, sub, gen, calls, namer, scroll, client>>

\* routes.ts 112-126: the status route replies with what getJobStatus
\* returned, 404 when it is undefined.  The record is read when the route
\* runs; the reply follows in the same microtask drain.
StatusCall(jobId) ==
    /\ TaskOK
    /\ reply' = [op |-> "status", jobId |-> jobId,
                 code |-> IF getJobStatus(store, jobId) = Undefined THEN 404 ELSE 200,
                 result |-> getJobStatus(store, jobId)]
    /\ UNCHANGED <<store, activeBrowsers, browser, sub, gen, calls, namer, scroll, client>>

\* -------------------------------------------------- MemStorage.updatePdfJob
\* What updatePdfJob returns: the merged record, or undefined.
updatedJob(s, jobId, updates) ==
    IF jobId \in DOMAIN s THEN Spread(s[jobId], updates) ELSE Undefined

\* The partial records handed to updatePdfJob.
Updates ==
    {Undefined,
     [status |-> "processing", completed |-> FALSE],
     [status |-> "cancelled", completed |-> TRUE],
     [successCount |-> 1, failCount |-> 0, outputPath |-> DefaultPath]}

\* A store with two records, as two submits leave it.
TwoJobs(urls1, urls2) ==
    createPdfJob(createPdfJob(NoJobs, NewJob("job-1", urls1, SentinelPath)),
                 NewJob("job-2", urls2, "/tmp/out"))

InitStore ==
    /\ reply = NoReply
    /\ namer = NamerIdle
    /\ scroll = ScrollIdle
    /\ client = ClientIdle
    /\ store \in {TwoJobs(urls1, urls2) : urls1 \in UrlLists, urls2 \in UrlLists}
    /\ activeBrowsers = {}
    /\ browser = [j \in JobIds |-> "none"]
    /\ sub = [j \in JobIds |-> SubIdle]
    /\ gen = [j \in JobIds |-> GenIdle]
    /\ calls = [k \in CallIds |-> CallIdle]

\* One call of storage.updatePdfJob(jobId, updates).
StoreUpdate(jobId, updates) ==
    /\ store' = updatePdfJob(store, jobId, updates)
    /\ reply' = [op |-> "update", jobId |-> jobId, updates |-> updates,
                 result |-> updatedJob(store, jobId, updates)]
    /\ UNCHANGED <<activeBrowsers, browser, sub, gen, calls, namer, scroll, client>>

NextStore ==
    \E jobId \in StoreIds \cup {"job-x"}, updates \in Updates :
        StoreUpdate(jobId, updates)

SpecStore == InitStore /\ [][NextStore]_vars

\* ------------------------------------------------- file names and the clock
\* generatePdfs enters its loop with a list of URLs.
NamerStart(urls) ==
    /\ namer.pc = "idle"
    /\ namer' = [NamerBegin EXCEPT !.urls = urls]
    /\ UNCHANGED <<store, activeBrowsers, browser, sub, gen, calls, reply, scroll, client>>

\* The clock is seen one millisecond later.
Tick ==
    /\ namer.pc \notin {"idle", "end"}
    /\ namer.ticks < MaxTicks
    /\ namer' = [namer EXCEPT !.now = @ + 1, !.ticks = @ + 1]
    /\ UNCHANGED <<store, activeBrowsers, browser, sub, gen, calls, reply, scroll, client>>

\* Lines 71-82: the file name is built from the URL and the clock, then
\* page.goto is started.
BuildFileName ==
    /\ namer.pc = "name"
    /\ namer' = [namer EXCEPT
                    !.pc = "goto",
                    !.names = Append(@, FileName(namer.urls[namer.i + 1], namer.now))]
    /\ UNCHANGED <<store, activeBrowsers, browser, sub, gen, calls, reply, scroll, client>>

\* Lines 79-87: page.goto resolves, page.waitForTimeout(2000) is started.
GotoDone ==
    /\ namer.pc = "goto"
    /\ namer' = [namer EXCEPT !.pc = "wait1", !.timerEnd = namer.now + WaitAfterLoad]
    /\ UNCHANGED <<store, activeBrowsers, browser, sub, gen, calls, reply, scroll, client>>

\* Lines 87-95: the first wait is over (the clock is not before its end),
\* autoScroll resolves, page.waitForTimeout(1000) is started.
ScrollDone ==
    /\ namer.pc = "wait1"
    /\ namer' = [namer EXCEPT
                    !.pc = "wait2",
                    !.now = IF @ < namer.timerEnd THEN namer.timerEnd ELSE @,
                    !.timerEnd = (IF namer.now < namer.timerEnd
                                  THEN namer.timerEnd ELSE namer.now) + WaitAfterScroll]
    /\ UNCHANGED <<store, activeBrowsers, browser, sub, gen, calls, reply, scroll, client>>

\* The head of the loop with index i: the next file name, or the end.
NamerLoop(n, i) ==
    [n EXCEPT !.i = i, !.pc = IF i < Len(n.urls) THEN "name" ELSE "end"]

\* Lines 95-117: the second wait is over, page.pdf writes the file at
\* filePath and the file is there; then the next URL.
PdfWritten ==
    /\ namer.pc = "wait2"
    /\ LET t == IF namer.now < namer.timerEnd THEN namer.timerEnd ELSE namer.now
           name == namer.names[namer.i + 1]
       IN namer' = NamerLoop(
                      [namer EXCEPT
                          !.now = t,
                          !.written = @ \cup {namer.i + 1},
                          !.overwritten =
                              @ \/ \E a \in namer.written : namer.names[a] = name],
                      namer.i + 1)
    /\ UNCHANGED <<store, activeBrowsers, browser, sub, gen, calls, reply, scroll, client>>

\* Lines 121-129: a page operation rejects at any point of the URL (a
\* pending wait is not awaited to its end), no file; then the next URL.
NamerFail ==
    /\ namer.pc \in {"goto", "wait1", "wait2"}
    /\ namer' = NamerLoop(namer, namer.i + 1)
    /\ UNCHANGED <<store, activeBrowsers, browser, sub, gen, calls, reply, scroll, client>>

NextNames ==
    \/ \E urls \in NameUrlLists : NamerStart(urls)
    \/ Tick
    \/ BuildFileName \/ GotoDone \/ ScrollDone \/ PdfWritten \/ NamerFail

SpecNames == Init /\ [][NextNames]_vars

\* ------------------------------------------------------------- autoScroll
\* const distance = 100 (line 169).
ScrollDistance == 100
\* Pages are up to MaxScreens steps high.
MaxScreens == 4
\* The values document.body.scrollHeight is seen to take, in pixels.
PageHeights == {50 * n : n \in 0..(2 * MaxScreens)}

\* autoScroll inside the page: totalHeight is its local, steps the number of
\* timer callbacks run so far, scrollHeight the value read by the last one.
\* maxHeight is not a local: it is the height the page never exceeds.
ScrollBegin == [pc |-> "run", maxHeight |-> 0, totalHeight |-> 0, steps |-> 0,
                scrollHeight |-> 0]

\* Lines 166-170: page.evaluate runs the function, totalHeight is 0 and the
\* interval timer is set, on a page that stays within maxHeight.
ScrollStart(maxHeight) ==
    /\ scroll.pc = "idle"
    /\ scroll' = [ScrollBegin EXCEPT !.maxHeight = maxHeight]
    /\ UNCHANGED <<store, activeBrowsers, browser, sub, gen, calls, reply, namer, client>>

\* Mutant of ScrollStep: the loop ends only when the distance is past the height.
ScrollStepPast(height) ==
    /\ scroll.pc = "run"
    /\ height <= scroll.maxHeight
    /\ scroll' = [scroll EXCEPT
                     !.scrollHeight = height,
                     !.totalHeight = @ + ScrollDistance,
                     !.steps = @ + 1,
                     !.pc = IF scroll.totalHeight + ScrollDistance > height
                            THEN "done" ELSE "run"]
    /\ UNCHANGED <<store, activeBrowsers, browser, sub, gen, calls, reply, namer, client>>

\* One timer callback (lines 170-178): document.body.scrollHeight is read
\* and found to be height, the window is scrolled, totalHeight grows by
\* distance, and the timer is cleared when totalHeight >= scrollHeight.
ScrollStep(height) ==
    /\ scroll.pc = "run"
    /\ height <= scroll.maxHeight
    /\ scroll' = [scroll EXCEPT
                     !.scrollHeight = height,
                     !.totalHeight = @ + ScrollDistance,
                     !.steps = @ + 1,
                     !.pc = IF scroll.totalHeight + ScrollDistance >= height
                            THEN "done" ELSE "run"]
    /\ UNCHANGED <<store, activeBrowsers, browser, sub, gen, calls, reply, namer, client>>

NextScroll ==
    \/ \E maxHeight \in PageHeights : ScrollStart(maxHeight)
    \/ \E height \in PageHeights : ScrollStep(height)

SpecScroll == Init /\ [][NextScroll]_vars

\* ------------------------------------------------------------- the client
\* status.successCount || 0: a count the response does not carry reads as 0.
OrZero(status, f) == IF f \in DOMAIN status THEN status[f] ELSE 0

\* cancelPdfGeneration up to its await (api.ts 85-88): the flag is set and
\* POST /api/pdf/cancel is sent with the job id.
cancelPdfGeneration(c, jobId) ==
    [c EXCEPT !.isCancelled = TRUE, !.cancelSent = Append(@, jobId)]

\* The cleanup of the effect (ProcessingCard.tsx 100-105).  The effect has
\* no dependencies, so its closure holds the jobId of the first render.
Cleanup(c) ==
    IF c.cleanupJobId # "" THEN cancelPdfGeneration(c, c.cleanupJobId) ELSE c

\* Home's processingStatus leaves "processing": ProcessingCard is unmounted
\* and the cleanup runs.
Leave(c, view, pc) == Cleanup([c EXCEPT !.view = view, !.pc = pc])

\* Home.tsx 61-65, ProcessingCard.tsx 28-48 and 98, api.ts 17-24: the form
\* starts the processing view with every URL pending; the effect calls
\* processUrls, generatePdfs clears the flag and POST /api/pdf/generate is sent.
Mount(urls, outputPath) ==
    /\ client.pc = "idle"
    /\ client' = [ClientBegin EXCEPT
                     !.urls = urls, !.outputPath = outputPath,
                     !.urlStatuses = [i \in 1..Len(urls) |->
                                         [url |-> urls[i], status |-> "pending"]]]
    /\ UNCHANGED <<store, activeBrowsers, browser, sub, gen, calls, reply, namer, scroll>>

\* The request of the client reaches the generate route.
GenerateRoute(j) ==
    /\ client.pc = "genSent"
    /\ Submit(j, client.urls, client.outputPath)

\* api.ts 26-45: the job id comes back, pollJobStatus starts and sends its
\* first GET /api/pdf/status/:jobId.
GenerateReply(j) ==
    /\ client.pc = "genSent"
    /\ sub[j].pc = "returned"
    /\ client' = [client EXCEPT !.apiJobId = j, !.pc = "statusSent"]
    /\ UNCHANGED <<store, activeBrowsers, browser, sub, gen, calls, reply, namer, scroll>>

\* The pending status request reaches the status route.
StatusRoute ==
    /\ client.pc = "statusSent"
    /\ reply = NoReply
    /\ StatusCall(client.apiJobId)

\* The progress callback of ProcessingCard (lines 49-85) for every entry of
\* the response, in order: the entry is copied into urlStatuses, the last
\* `processing` entry becomes currentIndex, and an entry whose status is
\* "completed" calls onComplete (Home.tsx 75-80: processingStatus becomes
\* "completed").  At that moment `results` and apiJobId hold no value yet.
Progress(c, status) ==
    LET entries == IF "urlStatuses" \in DOMAIN status THEN status.urlStatuses ELSE <<>>
        processing == {i \in 1..Len(entries) : entries[i].status = "processing"}
        completed == {i \in 1..Len(entries) : entries[i].status = "completed"}
        RECURSIVE Calls(_)
        Calls(n) == IF n = 0 THEN <<>>
                    ELSE Append(Calls(n - 1),
                                [successful |-> 0, failed |-> 0,
                                 outputPath |-> c.outputPath, jobId |-> ""])
        shown == [i \in 1..Len(c.urlStatuses) |->
                     IF i <= Len(entries)
                     THEN Spread(c.urlStatuses[i], [status |-> entries[i].status,
                                                    error |-> entries[i].error])
                     ELSE c.urlStatuses[i]]
        d == [c EXCEPT
                 !.urlStatuses = shown,
                 !.currentIndex = IF processing = {} THEN @
                                  ELSE (CHOOSE i \in processing :
                                           \A k \in processing : k <= i) - 1,
                 !.onCompleteCalls = @ \o Calls(Cardinality(completed))]
    IN IF completed = {} THEN d ELSE Leave(d, "completed", d.pc)

\* Mutant of PollReceive: the loop goes on after a completed response.
PollReceiveGoesOn ==
    /\ client.pc = "statusSent"
    /\ reply.op = "status"
    /\ reply.code = 200
    /\ LET status == reply.result
           c == Progress([client EXCEPT !.status = status], status)
       IN client' = [c EXCEPT !.isDone = status.completed, !.pc = "sleep"]
    /\ reply' = NoReply
    /\ UNCHANGED <<store, activeBrowsers, browser, sub, gen, calls, namer, scroll>>

\* api.ts 46-72 and 78-82, 29-30, ProcessingCard.tsx 88-92: the response is
\* read, the progress callback runs, isDone becomes status.completed.  When
\* done, the counts are taken from the response, pollJobStatus returns them,
\* generatePdfs adds the job id and processUrls stores it with setJobId;
\* otherwise the loop sleeps 1000 ms.
PollReceive ==
    /\ client.pc = "statusSent"
    /\ reply.op = "status"
    /\ reply.code = 200
    /\ LET status == reply.result
           c == Progress([client EXCEPT !.status = status], status)
       IN client' =
            IF status.completed
            THEN [c EXCEPT
                     !.isDone = TRUE,
                     !.result = [successCount |-> OrZero(status, "successCount"),
                                 failCount |-> OrZero(status, "failCount")],
                     !.jobId = c.apiJobId,
                     !.pc = "returned"]
            ELSE [c EXCEPT !.isDone = FALSE, !.pc = "sleep"]
    /\ reply' = NoReply
    /\ UNCHANGED <<store, activeBrowsers, browser, sub, gen, calls, namer, scroll>>

\* The error path of processUrls (api.ts 73-75 and 31-33, ProcessingCard.tsx
\* 93-95, Home.tsx 47-50): onError shows the error view.
Throw(c) == Leave(c, "error", "failed")

\* api.ts 43-45 and 78-80: the sleep is over, the loop condition is read;
\* the next status request is sent, or the loop is left because the flag
\* is set and pollJobStatus throws.
PollWake ==
    /\ client.pc = "sleep"
    /\ client' = IF client.isCancelled THEN Throw(client)
                 ELSE [client EXCEPT !.pc = "statusSent"]
    /\ UNCHANGED <<store, activeBrowsers, browser, sub, gen, calls, reply, namer, scroll>>

\* The status request fails (the connection is lost): apiRequest rejects
\* and pollJobStatus throws (api.ts 73-75).
PollError ==
    /\ client.pc = "statusSent"
    /\ client' = Throw(client)
    /\ reply' = NoReply
    /\ UNCHANGED <<store, activeBrowsers, browser, sub, gen, calls, namer, scroll>>

\* Mutant of CancelClick: the job id of the api layer is used.
CancelClickApiJobId ==
    /\ client.pc # "idle"
    /\ client.view = "processing"
    /\ client.cancelPc = "idle"
    /\ client.clicks < MaxCalls
    /\ client' =
         IF client.apiJobId = ""
         THEN [client EXCEPT !.clicks = @ + 1, !.toast = "Cannot cancel"]
         ELSE [cancelPdfGeneration(client, client.apiJobId) EXCEPT
                  !.clicks = @ + 1, !.cancelPc = "sent"]
    /\ UNCHANGED <<store, activeBrowsers, browser, sub, gen, calls, reply, namer, scroll>>

\* handleCancel up to its await (ProcessingCard.tsx 108-120): the Cancel
\* button is activated (it is disabled while a cancel is pending).  With no
\* jobId in the state a toast is shown and nothing is sent.
CancelClick ==
    /\ client.pc # "idle"
    /\ client.view = "processing"
    /\ client.cancelPc = "idle"
    /\ client.clicks < MaxCalls
    /\ client' =
         IF client.jobId = ""
         THEN [client EXCEPT !.clicks = @ + 1, !.toast = "Cannot cancel"]
         ELSE [cancelPdfGeneration(client, client.jobId) EXCEPT
                  !.clicks = @ + 1, !.cancelPc = "sent"]
    /\ UNCHANGED <<store, activeBrowsers, browser, sub, gen, calls, reply, namer, scroll>>

\* The call slot that serves the last cancel request sent.
CancelSlot == Len(client.cancelSent)

\* The pending cancel request reaches the cancel route (routes.ts 129-132).
CancelRoute ==
    /\ client.pc # "idle"
    /\ client.cancelPc = "sent"
    /\ CancelCall(CancelSlot, client.cancelSent[CancelSlot])

\* handleCancel after its await, cancelPdfGeneration having resolved
\* (ProcessingCard.tsx 121, 129; Home.tsx 35-45): onCancel resets Home.
\* apiRequest is not among the sources: whether it resolves or rejects on
\* the 404 reply of the cancel route is left open.
CancelResolved ==
    /\ client.pc # "idle"
    /\ client.cancelPc = "sent"
    /\ calls[CancelSlot].pc = "done"
    /\ client' = Leave([client EXCEPT !.cancelPc = "idle"], "idle", client.pc)
    /\ UNCHANGED <<store, activeBrowsers, browser, sub, gen, calls, reply, namer, scroll>>

\* handleCancel after its await, cancelPdfGeneration having rejected on the
\* 404 reply sent when cancelJob returned false (routes.ts 133-135,
\* api.ts 89-91, ProcessingCard.tsx 122-129): a toast is shown.
CancelRejected ==
    /\ client.pc # "idle"
    /\ client.cancelPc = "sent"
    /\ calls[CancelSlot].pc = "done"
    /\ ~calls[CancelSlot].result
    /\ client' = [client EXCEPT !.cancelPc = "idle", !.toast = "Error cancelling"]
    /\ UNCHANGED <<store, activeBrowsers, browser, sub, gen, calls, reply, namer, scroll>>

\* One browser tab with the server behind it: the form submits one list,
\* the routine runs with every failure it can meet, and the only requests
\* are those of the tab.  The tab sends a cancel request only for a job
\* whose record it has seen completed, so cancelJob always takes its
\* refusing branch here.
NextClient ==
    \/ \E urls \in UrlLists, outputPath \in Paths : Mount(urls, outputPath)
    \/ \E j \in JobIds : GenerateRoute(j) \/ GenerateReply(j)
    \/ StatusRoute \/ PollReceive \/ PollWake \/ PollError
    \/ CancelClick \/ CancelRoute \/ CancelResolved \/ CancelRejected
    \/ \E j \in JobIds :
          \/ SubmitReturn(j)
          \/ MkdirOk(j) \/ MkdirFail(j)
          \/ JobStatusWrite(j) \/ ProcessingReturn(j) \/ DirFailReturn(j)
          \/ LaunchOk(j) \/ LaunchFail(j)
          \/ NewContextOk(j) \/ NewPageOk(j) \/ ContextFail(j)
          \/ UrlStatusWrite(j) \/ UrlProcessingReturn(j)
          \/ PageStepOk(j) \/ PdfOk(j) \/ PdfNoFile(j) \/ PageStepFail(j)
          \/ UrlDoneReturn(j)
          \/ CtxCloseOk(j) \/ CtxCloseFail(j)
          \/ FinalWriteStep(j) \/ Finally(j)
          \/ BrowserCloseOk(j) \/ BrowserCloseFail(j)
    \/ \E k \in CallIds : CancelReject(k)

SpecClient == Init /\ [][NextClient]_vars

\* ------------------------------------------------------------------ Next
Next ==
    \/ \E j \in JobIds, urls \in RawUrlLists, outputPath \in RawPaths :
          Submit(j, urls, outputPath)
    \/ \E j \in JobIds :
          \/ SubmitReturn(j)
          \/ MkdirOk(j) \/ MkdirFail(j)
          \/ JobStatusWrite(j) \/ ProcessingReturn(j) \/ DirFailReturn(j)
          \/ LaunchOk(j) \/ LaunchFail(j)
          \/ NewContextOk(j) \/ NewPageOk(j) \/ ContextFail(j)
          \/ UrlStatusWrite(j) \/ UrlProcessingReturn(j)
          \/ PageStepOk(j) \/ PdfOk(j) \/ PdfNoFile(j) \/ PageStepFail(j)
          \/ UrlDoneReturn(j)
          \/ CtxCloseOk(j) \/ CtxCloseFail(j)
          \/ FinalWriteStep(j) \/ Finally(j)
          \/ BrowserCloseOk(j) \/ BrowserCloseFail(j)
    \/ \E k \in CallIds :
          \/ \E j \in CancelIds : CancelCall(k, j)
          \/ CancelReject(k) \/ CancelClose(k) \/ CancelNoBrowser(k)
          \/ CancelCloseOk(k) \/ CancelCloseFail(k) \/ CancelReturn(k)

Spec == Init /\ [][Next]_vars

\* ---------------------------------------------------------------- claims
Terminal == {"completed", "failed", "cancelled"}
UrlTerminal == {"complete", "failed"}
Jobs == DOMAIN store
UrlIndexes(j) == 1..Len(store[j].urlStatuses)

\* C1: once a stored urlStatuses entry is `complete` or `failed`, its status
\* never changes again.
C1_UrlStatusNeverRegresses ==
    [][\A j \in Jobs : \A i \in UrlIndexes(j) :
          store[j].urlStatuses[i].status \in UrlTerminal
          => store'[j].urlStatuses[i].status = store[j].urlStatuses[i].status]_vars

\* C2: once a record has completed = true, no field of it changes again.
C2_TerminalRecordFrozen ==
    [][\A j \in Jobs : store[j].completed => store'[j] = store[j]]_vars

\* C3: cancelJob on an unknown job id, or on a job whose record has
\* completed = true, returns false, leaves the job store and the registry
\* unchanged and closes no browser.
C3_RefusedCancelChangesNothing ==
    [][\A k \in CallIds :
          (/\ calls[k].pc = "got"
           /\ calls'[k] # calls[k]
           /\ IF calls[k].job = Undefined THEN TRUE ELSE calls[k].job.completed)
          => /\ calls'[k].pc = "done"
             /\ calls'[k].result = FALSE
             /\ store' = store
             /\ activeBrowsers' = activeBrowsers
             /\ browser' = browser]_vars

\* A cancelJob call was refused on a record that had completed = true.
C3_Witness ==
    \E k \in CallIds :
        /\ calls[k].pc = "done"
        /\ calls[k].result = FALSE
        /\ calls[k].job # Undefined
        /\ calls[k].job.completed

\* C4: cancelJob on a job whose record has completed = false returns true,
\* and when it returns the job's browser is closed, the registry has no
\* entry for the job and the stored record is cancelled with completed = true.
C4_CancelReturnState ==
    [][\A k \in CallIds :
          (calls[k].pc = "upd" /\ calls'[k].pc = "done")
          => /\ calls'[k].result = TRUE
             /\ browser'[calls[k].jobId] # "open"
             /\ calls[k].jobId \notin activeBrowsers'
             /\ store'[calls[k].jobId].status = "cancelled"
             /\ store'[calls[k].jobId].completed]_vars

\* C5: once a cancelJob call has finished closing the browser, no urlStatuses
\* entry of that job is written again (the record write that follows the
\* close in the same step included).
C5_NoUrlWriteAfterClose ==
    [][\A k \in CallIds :
          calls'[k].closed
          => store'[calls'[k].jobId].urlStatuses
               = store[calls'[k].jobId].urlStatuses]_vars

\* No flow of job j is running: generatePdfs has ended and no cancelJob call
\* is in progress.
Quiescent(j) ==
    /\ gen[j].pc = "done"
    /\ \A k \in CallIds : calls[k].pc \in {"idle", "done"}

\* C6: when cancelJob is called while URL i of a job with at least two URLs
\* is `processing` and returns true, the job ends cancelled with
\* completed = true, and no later URL reaches `processing`.
C6_CancelWhileProcessing ==
    \A k \in CallIds :
        (/\ calls[k].pc = "done"
         /\ calls[k].result
         /\ calls[k].procAt >= 0
         /\ Len(store[calls[k].jobId].urls) >= 2)
        => /\ Quiescent(calls[k].jobId)
              => /\ store[calls[k].jobId].status = "cancelled"
                 /\ store[calls[k].jobId].completed
           /\ \A i \in UrlIndexes(calls[k].jobId) :
                 i > calls[k].procAt + 1
                 => store[calls[k].jobId].urlStatuses[i].status = "pending"

\* C7: completed is true exactly when status is completed, failed or cancelled.
C7_CompletedIffTerminal ==
    \A j \in Jobs : store[j].completed <=> store[j].status \in Terminal

\* A job was cancelled while generatePdfs was still running.
C7_Witness ==
    \E j \in Jobs :
        /\ store[j].status = "cancelled"
        /\ store[j].completed
        /\ gen[j].pc \notin {"idle", "done"}

\* successCount + failCount <= n as the program evaluates it on a record: the
\* sum of a missing count is NaN, and no comparison with NaN is true.
CountsAtMost(job, n) ==
    /\ "successCount" \in DOMAIN job
    /\ "failCount" \in DOMAIN job
    /\ job.successCount + job.failCount <= n

\* C8: successCount + failCount <= len(urls) in every state, with equality
\* when the status is `completed`.
C8_CountsBounded ==
    \A j \in Jobs :
        /\ CountsAtMost(store[j], Len(store[j].urls))
        /\ (store[j].status = "completed" /\ store[j].completed)
           => store[j].successCount + store[j].failCount = Len(store[j].urls)

\* A stored count, a missing one read as zero.
Count(job, f) == IF f \in DOMAIN job THEN job[f] ELSE 0

\* C9: the stored counts never decrease, and never change once the job is
\* terminal.
C9_CountsMonotoneThenFrozen ==
    [][\A j \in Jobs :
          /\ Count(store'[j], "successCount") >= Count(store[j], "successCount")
          /\ Count(store'[j], "failCount") >= Count(store[j], "failCount")
          /\ store[j].completed
             => /\ Count(store'[j], "successCount") = Count(store[j], "successCount")
                /\ Count(store'[j], "failCount") = Count(store[j], "failCount")]_vars

\* C10: when the generate route returns the job id, the stored record is
\* pending with completed = false and one pending entry per URL, in URL
\* order, and generatePdfs is at its first await.
C10_SubmitReturnsPending ==
    [][\A j \in JobIds :
          (sub[j].pc = "created" /\ sub'[j].pc = "returned")
          => /\ j \in DOMAIN store'
             /\ store'[j].status = "pending"
             /\ store'[j].completed = FALSE
             /\ Len(store'[j].urlStatuses) = Len(sub[j].urls)
             /\ \A i \in 1..Len(sub[j].urls) :
                   /\ store'[j].urlStatuses[i].url = sub[j].urls[i]
                   /\ store'[j].urlStatuses[i].status = "pending"
             /\ gen'[j].pc = "mkdir"]_vars

\* The route has just returned the id of a job with two URLs.
C10_Witness ==
    \E j \in Jobs :
        /\ sub[j].pc = "returned"
        /\ gen[j].pc = "mkdir"
        /\ Len(store[j].urlStatuses) = 2
        /\ \A k \in CallIds : calls[k].pc = "idle"

\* C11: right after the generate route has created a record, its
\* successCount and failCount are present and 0.
C11_CountsStartAtZero ==
    \A j \in Jobs :
        sub[j].pc = "created"
        => /\ "successCount" \in DOMAIN store[j]
           /\ "failCount" \in DOMAIN store[j]
           /\ store[j].successCount = 0
           /\ store[j].failCount = 0

\* C12: urlStatuses has one entry per URL, entry i carries urls[i], and every
\* status is one of pending, processing, complete, failed.
C12_UrlStatusesAligned ==
    \A j \in Jobs :
        /\ Len(store[j].urlStatuses) = Len(store[j].urls)
        /\ \A i \in UrlIndexes(j) :
              /\ store[j].urlStatuses[i].url = store[j].urls[i]
              /\ store[j].urlStatuses[i].status
                    \in {"pending", "processing", "complete", "failed"}

\* Both entries of a two-URL job have been rewritten by updateUrlStatus.
C12_Witness ==
    \E j \in Jobs :
        /\ Len(store[j].urls) = 2
        /\ store[j].urlStatuses[1].status = "complete"
        /\ store[j].urlStatuses[2].status = "failed"

\* C13: a stored urlStatuses entry only moves pending -> processing and
\* processing -> complete or failed: none goes from pending straight to
\* complete or failed, and none moves backward.
C13_UrlStatusStepsForward ==
    [][\A j \in Jobs : \A i \in UrlIndexes(j) :
          \/ store'[j].urlStatuses[i].status = store[j].urlStatuses[i].status
          \/ /\ store[j].urlStatuses[i].status = "pending"
             /\ store'[j].urlStatuses[i].status = "processing"
          \/ /\ store[j].urlStatuses[i].status = "processing"
             /\ store'[j].urlStatuses[i].status \in UrlTerminal]_vars

\* C14: per-URL writes follow the order of the URL list: an entry is past
\* `pending` only when every earlier entry is `complete` or `failed`, so at
\* most one entry is `processing`.
C14_UrlWritesInOrder ==
    \A j \in Jobs :
        /\ \A a, b \in UrlIndexes(j) :
              (a < b /\ store[j].urlStatuses[b].status # "pending")
              => store[j].urlStatuses[a].status \in UrlTerminal
        /\ \A a, b \in UrlIndexes(j) :
              (/\ store[j].urlStatuses[a].status = "processing"
               /\ store[j].urlStatuses[b].status = "processing") => a = b

\* The second URL is being processed after the first one was finished.
C14_Witness ==
    \E j \in Jobs :
        /\ Len(store[j].urls) = 2
        /\ store[j].urlStatuses[2].status = "processing"
        /\ store[j].urlStatuses[1].status \in UrlTerminal
        /\ gen[j].pc = "uusProcR"

\* Runs in which no cancel is made and nothing fails but the page
\* operations of a URL (navigation, capture, the file check).
NextPageFail ==
    \/ \E j \in JobIds, urls \in RawUrlLists, outputPath \in RawPaths :
          Submit(j, urls, outputPath)
    \/ \E j \in JobIds :
          \/ SubmitReturn(j)
          \/ MkdirOk(j)
          \/ JobStatusWrite(j) \/ ProcessingReturn(j)
          \/ LaunchOk(j)
          \/ NewContextOk(j) \/ NewPageOk(j)
          \/ UrlStatusWrite(j) \/ UrlProcessingReturn(j)
          \/ PageStepOk(j) \/ PdfOk(j) \/ PdfNoFile(j) \/ PageStepFail(j)
          \/ UrlDoneReturn(j)
          \/ CtxCloseOk(j)
          \/ FinalWriteStep(j) \/ Finally(j)
          \/ BrowserCloseOk(j)

SpecPageFail == Init /\ [][NextPageFail]_vars

\* The entries of job j that are stored with the given status.
EntriesWith(j, status) ==
    {i \in UrlIndexes(j) : store[j].urlStatuses[i].status = status}

\* C15: a failure of navigation, capture or the file check of a URL, with no
\* cancel, marks that URL `failed` and adds exactly one to failCount; the
\* routine goes on with the next URL and the job ends `completed`, not
\* `failed`.
C15_PageFailureIsPerUrl ==
    \A j \in Jobs :
        /\ store[j].status # "failed"
        /\ Cardinality(EntriesWith(j, "failed"))
              = gen[j].failCount + (IF gen[j].pc = "uusFailR" THEN 1 ELSE 0)
        /\ gen[j].pc = "uusFailR"
              => /\ store[j].urlStatuses[gen[j].i + 1].status = "failed"
                 /\ store[j].urlStatuses[gen[j].i + 1].error # {}
        /\ gen[j].pc = "done"
              => /\ store[j].status = "completed"
                 /\ \A i \in UrlIndexes(j) :
                       store[j].urlStatuses[i].status \in UrlTerminal
                 /\ store[j].failCount = Cardinality(EntriesWith(j, "failed"))
                 /\ store[j].successCount = Cardinality(EntriesWith(j, "complete"))

\* The first URL failed, the second was rendered, the job ended completed.
C15_Witness ==
    \E j \in Jobs :
        /\ gen[j].pc = "done"
        /\ Len(store[j].urls) = 2
        /\ store[j].urlStatuses[1].status = "failed"
        /\ store[j].urlStatuses[2].status = "complete"
        /\ store[j].status = "completed"
        /\ store[j].failCount = 1

\* Runs in which no cancel is made and nothing fails but the steps taken for
\* a URL: opening its context and page, or its page operations.
NextUrlFail ==
    \/ NextPageFail
    \/ \E j \in JobIds : ContextFail(j)

SpecUrlFail == Init /\ [][NextUrlFail]_vars

\* C16: a failure of browser.newContext or context.newPage for a URL is a
\* per-URL failure: the URL is stored `failed` with the error, failCount is
\* incremented, the routine goes on with the next URL and the job does not
\* become `failed`.
C16_ContextFailureIsPerUrl ==
    \A j \in Jobs :
        /\ store[j].status # "failed"
        /\ gen[j].pc = "done"
              => /\ \A i \in UrlIndexes(j) :
                       /\ store[j].urlStatuses[i].status \in UrlTerminal
                       /\ store[j].urlStatuses[i].status = "failed"
                             => store[j].urlStatuses[i].error # {}
                 /\ store[j].failCount = Cardinality(EntriesWith(j, "failed"))

\* No cancelJob call has been made so far.
NoCancelYet == \A k \in CallIds : calls[k].pc = "idle"

AllPending(j) == \A i \in UrlIndexes(j) : store[j].urlStatuses[i].status = "pending"

\* C17: when mkdir fails the job goes from `pending` straight to `failed`
\* with completed = true; `processing` is never written, every urlStatuses
\* entry stays `pending`, and no browser is launched or registered.
C17_MkdirFailure ==
    \A j \in Jobs :
        /\ gen[j].pc \in {"ujsDirW", "ujsDirR"}
              => /\ AllPending(j)
                 /\ store[j].status # "processing"
                 /\ ~gen[j].browser
                 /\ browser[j] = "none"
                 /\ j \notin activeBrowsers
        /\ (gen[j].pc = "ujsDirW" /\ NoCancelYet)
              => (store[j].status = "pending" /\ ~store[j].completed)
        /\ gen[j].pc = "ujsDirR"
              => (store[j].status = "failed" /\ store[j].completed)
        /\ gen[j].pc = "launch" => store[j].status # "failed"

\* The routine has stored `failed` after mkdir failed.
C17_Witness ==
    \E j \in Jobs :
        /\ gen[j].pc = "ujsDirR"
        /\ store[j].status = "failed"
        /\ NoCancelYet

\* C18: when chromium.launch fails the job ends `failed` with
\* completed = true, every urlStatuses entry is still `pending`, and the
\* registry never holds an entry for the job.
C18_LaunchFailure ==
    \A j \in Jobs :
        /\ ~gen[j].browser => (j \notin activeBrowsers /\ browser[j] = "none")
        /\ (~gen[j].browser /\ gen[j].pc \in {"ujsFailW", "ujsFailR", "done"})
              => AllPending(j)
        /\ (~gen[j].browser /\ gen[j].pc \in {"ujsFailR", "done"})
              => (store[j].status = "failed" /\ store[j].completed)

\* The outer catch has stored `failed` after the launch failed.
C18_Witness ==
    \E j \in Jobs :
        /\ gen[j].pc = "ujsFailR"
        /\ ~gen[j].browser
        /\ store[j].status = "failed"

\* C19: a record that the routine has moved to `failed` carries the error
\* message at job level.
C19_FailedJobHasError ==
    \A j \in Jobs :
        store[j].status = "failed"
        => ("error" \in DOMAIN store[j] /\ store[j].error # {})

C21_ContextAlwaysClosed ==
    \A j \in JobIds :
        gen[j].pc \in {"newContext", "finW", "finR", "brClose", "done"}
        => gen[j].contexts = {}

\* C22: a job has at most one browsing context open, and
\* browser.newContext for the next URL is started only after the previous
\* context's close has completed.
C22_OneContextAtATime ==
    \A j \in JobIds :
        /\ Cardinality(gen[j].contexts) <= 1
        /\ gen[j].pc = "newContext" => gen[j].contexts = {}

\* The context of the second URL is open, the first one's was closed.
C22_Witness ==
    \E j \in JobIds :
        /\ gen[j].contexts = {1}
        /\ gen[j].pc = "goto"

\* C23: when generatePdfs and every cancelJob call of a job have finished,
\* the registry holds no entry for the job, also after a close that
\* reported an error.
C23_NoLostDeregistration ==
    \A j \in JobIds : Quiescent(j) => j \notin activeBrowsers

\* The steps of the program itself: every continuation of the generate
\* route, of generatePdfs and of cancelJob, and every completion (success or
\* failure) of a file-system or browser operation.  New requests are left out.
ProgramStep ==
    \/ \E j \in JobIds :
          \/ SubmitReturn(j)
          \/ MkdirOk(j) \/ MkdirFail(j)
          \/ JobStatusWrite(j) \/ ProcessingReturn(j) \/ DirFailReturn(j)
          \/ LaunchOk(j) \/ LaunchFail(j)
          \/ NewContextOk(j) \/ NewPageOk(j) \/ ContextFail(j)
          \/ UrlStatusWrite(j) \/ UrlProcessingReturn(j)
          \/ PageStepOk(j) \/ PdfOk(j) \/ PdfNoFile(j) \/ PageStepFail(j)
          \/ UrlDoneReturn(j)
          \/ CtxCloseOk(j) \/ CtxCloseFail(j)
          \/ FinalWriteStep(j) \/ Finally(j)
          \/ BrowserCloseOk(j) \/ BrowserCloseFail(j)
    \/ \E k \in CallIds :
          \/ CancelReject(k) \/ CancelClose(k) \/ CancelNoBrowser(k)
          \/ CancelCloseOk(k) \/ CancelCloseFail(k) \/ CancelReturn(k)

\* The event loop runs every queued continuation, and every file-system and
\* browser operation returns or fails: a program step that can be taken is
\* taken.  Requests (submit, cancel) may or may not come.
SpecLive == Spec /\ WF_vars(ProgramStep)

JobCompleted(j) == j \in Jobs /\ store[j].completed

\* C24: every submitted job eventually has completed = true and keeps it
\* for ever, whatever cancelJob calls are made.
C24_EventuallyCompletedForGood ==
    \A j \in JobIds : (j \in Jobs) ~> [](JobCompleted(j))

\* A job ended completed = true after a cancelJob call closed its browser
\* and the routine's own close followed.
C24_Witness ==
    \E j \in JobIds :
        /\ Quiescent(j)
        /\ JobCompleted(j)
        /\ gen[j].browser
        /\ \E k \in CallIds : calls[k].closed /\ calls[k].result

\* Runs with no cancel in which the status route is called and ill-formed
\* submissions are made, besides what SpecUrlFail has.
NextApi ==
    \/ NextUrlFail
    \/ \E jobId \in CancelIds : StatusCall(jobId)
    \/ \E urls \in RawUrlLists, outputPath \in RawPaths : SubmitReject(urls, outputPath)

SpecApi == Init /\ [][NextApi]_vars

\* C25: getJobStatus(jobId) returns the record stored at that moment,
\* undefined for an unknown id, and leaves the job store and the registry
\* as they are.
C25_StatusIsPureRead ==
    [][(reply' # reply /\ reply'.op = "status")
       => /\ store' = store
          /\ activeBrowsers' = activeBrowsers
          /\ IF reply'.jobId \in DOMAIN store
             THEN reply'.result = store[reply'.jobId] /\ reply'.code = 200
             ELSE reply'.result = Undefined /\ reply'.code = 404]_vars

\* The status route replied with the record of a job that is processing.
C25_Witness ==
    /\ reply.op = "status"
    /\ reply.code = 200
    /\ reply.result.status = "processing"
    /\ \E i \in 1..Len(reply.result.urlStatuses) :
          reply.result.urlStatuses[i].status = "complete"

\* C26: updatePdfJob on an existing job overwrites exactly the supplied
\* fields, leaves the other fields of the record and every other record as
\* they are and returns the merged record; on an unknown jobId it returns
\* undefined and creates no record.
C26_UpdateMerges ==
    [][(reply' # reply /\ reply'.op = "update")
       => LET id == reply'.jobId
              u == reply'.updates
          IN IF id \in DOMAIN store
             THEN /\ DOMAIN store' = DOMAIN store
                  /\ \A k \in DOMAIN store \ {id} : store'[k] = store[k]
                  /\ DOMAIN store'[id] = DOMAIN store[id] \cup DOMAIN u
                  /\ \A f \in DOMAIN u : store'[id][f] = u[f]
                  /\ \A f \in DOMAIN store[id] \ DOMAIN u : store'[id][f] = store[id][f]
                  /\ reply'.result = store'[id]
             ELSE /\ store' = store
                  /\ reply'.result = Undefined]_vars

\* An update of job-1 changed its status and left job-2 as created.
C26_Witness ==
    /\ reply.op = "update"
    /\ reply.jobId = "job-1"
    /\ reply.updates = [status |-> "cancelled", completed |-> TRUE]
    /\ store["job-1"].status = "cancelled"
    /\ store["job-1"].outputPath = SentinelPath
    /\ store["job-2"].status = "pending"

\* C27: jobId, urls and createdAt of a record stay what they were at
\* creation, through every write of generatePdfs and of cancelJob.
C27_IdentityFieldsFrozen ==
    \A j \in Jobs :
        /\ {"jobId", "urls", "createdAt"} \subseteq DOMAIN store[j]
        /\ store[j].jobId = j
        /\ store[j].urls = sub[j].urls
        /\ store[j].createdAt = CreationTime

\* The routine has ended and a cancelJob call has written the record.
C27_Witness ==
    \E j \in Jobs :
        /\ Quiescent(j)
        /\ gen[j].browser
        /\ "successCount" \in DOMAIN store[j]
        /\ \E k \in CallIds : calls[k].result

\* C28: the stored outputPath changes at most once, and only from the empty
\* path or the sentinel /Downloads/pdfs to the default directory; any other
\* supplied path never changes.
C28_OutputPathRewrittenOnce ==
    [][\A j \in Jobs :
          store'[j].outputPath # store[j].outputPath
          => /\ store[j].outputPath \in {"", SentinelPath}
             /\ store'[j].outputPath = DefaultPath]_vars

\* C29: within one job any two URLs with the same host get two distinct
\* file names, so no capture overwrites the file of an earlier URL.
C29_FileNamesDistinct ==
    namer.pc # "idle"
    => /\ \A a, b \in 1..Len(namer.names) :
             (a < b /\ Domain(namer.urls[a]) = Domain(namer.urls[b]))
             => namer.names[a] # namer.names[b]
       /\ ~namer.overwritten

\* C29 as amended: a URL whose file was written and any later URL with the
\* same host get distinct file names, and no capture overwrites a file of
\* the job.
C29_WrittenFilesKept ==
    namer.pc # "idle"
    => /\ \A a \in namer.written : \A b \in 1..Len(namer.names) :
             (a < b /\ Domain(namer.urls[a]) = Domain(namer.urls[b]))
             => namer.names[a] # namer.names[b]
       /\ ~namer.overwritten

\* Two URLs with the same host were both captured.
C29_Witness ==
    /\ namer.pc = "end"
    /\ namer.written = {1, 2}
    /\ Domain(namer.urls[1]) = Domain(namer.urls[2])
    /\ namer.urls[1] # namer.urls[2]

\* C30: a submission with an empty urls list, with a string that is no
\* well-formed URL, or with an empty outputPath is rejected with a
\* validation error; it creates no record and starts no routine.
C30_InvalidSubmitRejected ==
    /\ [](\A j \in JobIds :
             /\ j \in Jobs
                   => /\ store[j].urls # <<>>
                      /\ \A i \in 1..Len(store[j].urls) : store[j].urls[i] # NotAUrl
                      /\ store[j].outputPath # ""
             /\ gen[j].pc # "idle" => j \in Jobs)
    /\ [][(reply' # reply /\ reply'.op = "generate")
          => /\ \/ reply'.urls = <<>>
                \/ \E i \in 1..Len(reply'.urls) : reply'.urls[i] = NotAUrl
                \/ reply'.outputPath = ""
             /\ reply'.code = 400
             /\ store' = store
             /\ gen' = gen
             /\ sub' = sub]_vars

\* A submission with an empty list was rejected before any job existed.
C30_Witness ==
    /\ reply.op = "generate"
    /\ reply.code = 400
    /\ reply.urls = <<>>
    /\ Jobs = {}

\* Two jobs whose routines interleave, each with one URL: both are
\* submitted, every operation of either may fail, and one cancelJob call is
\* made for either of them.
NextTwo ==
    \/ \E j \in StoreIds : Submit(j, <<UrlAt(1)>>, "/tmp/out")
    \/ \E j \in StoreIds :
          \/ SubmitReturn(j)
          \/ MkdirOk(j) \/ MkdirFail(j)
          \/ JobStatusWrite(j) \/ ProcessingReturn(j) \/ DirFailReturn(j)
          \/ LaunchOk(j) \/ LaunchFail(j)
          \/ NewContextOk(j) \/ NewPageOk(j) \/ ContextFail(j)
          \/ UrlStatusWrite(j) \/ UrlProcessingReturn(j)
          \/ PageStepOk(j) \/ PdfOk(j) \/ PdfNoFile(j) \/ PageStepFail(j)
          \/ UrlDoneReturn(j)
          \/ CtxCloseOk(j) \/ CtxCloseFail(j)
          \/ FinalWriteStep(j) \/ Finally(j)
          \/ BrowserCloseOk(j) \/ BrowserCloseFail(j)
    \/ \E j \in StoreIds : CancelCall(1, j)
    \/ CancelReject(1) \/ CancelClose(1) \/ CancelNoBrowser(1)
    \/ CancelCloseOk(1) \/ CancelCloseFail(1) \/ CancelReturn(1)

\* The state after construction, with room for the routines of two jobs.
InitTwo ==
    /\ reply = NoReply
    /\ namer = NamerIdle
    /\ scroll = ScrollIdle
    /\ client = ClientIdle
    /\ store = NoJobs
    /\ activeBrowsers = {}
    /\ browser = [j \in StoreIds |-> "none"]
    /\ sub = [j \in StoreIds |-> SubIdle]
    /\ gen = [j \in StoreIds |-> GenIdle]
    /\ calls = [k \in CallIds |-> CallIdle]

SpecTwo == InitTwo /\ [][NextTwo]_vars

\* This step is one of generatePdfs for job a, or of a cancelJob(a) call.
StepOf(a) ==
    \/ gen'[a] # gen[a]
    \/ \E k \in CallIds : calls'[k] # calls[k] /\ calls'[k].jobId = a

\* This step leaves job b's record, registry entry and browser as they are.
Untouched(b) ==
    /\ (b \in DOMAIN store') = (b \in DOMAIN store)
    /\ b \in DOMAIN store => store'[b] = store[b]
    /\ (b \in activeBrowsers') = (b \in activeBrowsers)
    /\ browser'[b] = browser[b]

\* C31: with two jobs running interleaved, no step of generatePdfs or of
\* cancelJob for one job changes the other job's record or registry entry,
\* or closes the other job's browser.
C31_JobsIndependent ==
    [][\A a, b \in StoreIds : (a # b /\ StepOf(a)) => Untouched(b)]_vars

\* A cancelJob call closed job-1's browser while job-2 was rendering, and
\* job-2's browser is still open and registered.
C31_Witness ==
    /\ calls[1].pc = "done"
    /\ calls[1].result
    /\ calls[1].closed
    /\ calls[1].jobId = "job-1"
    /\ browser["job-1"] = "closed"
    /\ browser["job-2"] = "open"
    /\ "job-2" \in activeBrowsers
    /\ store["job-2"].status = "processing"
    /\ store["job-1"].status = "cancelled"

\* C32: for each URL the `processing` status is stored before the browsing
\* context of that URL is opened, so no URL is stored `pending` while its
\* context is open.
C32_ProcessingBeforeContext ==
    \A j \in Jobs : \A i \in gen[j].contexts :
        store[j].urlStatuses[i + 1].status # "pending"

\* The positions of generatePdfs inside the loop body, context.close excluded.
UrlPcs == {"newContext", "newPage", "uusProcW", "uusProcR", "goto", "wait1",
           "scroll", "wait2", "pdf", "uusDoneW", "uusDoneR", "uusFailW", "uusFailR"}

\* C33: a URL is stored `complete` and counted in successCount only if its
\* output file exists after page.pdf returned; when page.pdf returns and the
\* file does not exist, the URL is stored `failed` and counted in failCount.
C33_CompleteOnlyWithFile ==
    /\ [](\A j \in Jobs :
             /\ \A i \in UrlIndexes(j) :
                   store[j].urlStatuses[i].status = "complete"
                   => (i - 1) \in gen[j].files
             /\ gen[j].pc \in {"uusDoneW", "uusDoneR"}
                   => (gen[j].fileCheck = "exists" /\ gen[j].i \in gen[j].files)
             /\ gen[j].successCount
                   + (IF gen[j].pc \in {"uusDoneW", "uusDoneR"} THEN 1 ELSE 0)
                   = Cardinality(gen[j].files)
             /\ gen[j].fileCheck = "missing"
                   => /\ gen[j].pc \in {"uusFailW", "uusFailR"}
                      /\ gen[j].i \notin gen[j].files
             /\ gen[j].pc \in UrlPcs
                   => gen[j].successCount + gen[j].failCount = gen[j].i
             /\ gen[j].pc = "ctxClose"
                   => gen[j].successCount + gen[j].failCount = gen[j].i + 1)
    /\ [][\A j \in Jobs :
             /\ (/\ gen[j].fileCheck = "missing"
                 /\ gen[j].pc = "uusFailW"
                 /\ gen'[j].pc = "uusFailR")
                => /\ store'[j].urlStatuses[gen[j].i + 1].status = "failed"
                   /\ store'[j].urlStatuses[gen[j].i + 1].error # {}
             /\ (/\ gen[j].fileCheck = "missing"
                 /\ gen[j].pc = "uusFailR"
                 /\ gen'[j] # gen[j])
                => /\ gen'[j].failCount = gen[j].failCount + 1
                   /\ gen'[j].successCount = gen[j].successCount]_vars

\* page.pdf returned for the second URL with no file on disk, after the
\* first URL's file was written; the second URL is stored `failed`.
C33_Witness ==
    \E j \in Jobs :
        /\ gen[j].pc = "uusFailR"
        /\ gen[j].fileCheck = "missing"
        /\ gen[j].files = {0}
        /\ gen[j].i = 1
        /\ store[j].urlStatuses[1].status = "complete"
        /\ store[j].urlStatuses[2].status = "failed"

\* C35: whenever a stored status is `completed`, every urlStatuses entry is
\* `complete` or `failed`, successCount is the number of `complete` entries
\* and failCount the number of `failed` ones, cancelJob writes included.
C35_CompletedIsConsistent ==
    \A j \in Jobs :
        store[j].status = "completed"
        => /\ \A i \in UrlIndexes(j) : store[j].urlStatuses[i].status \in UrlTerminal
           /\ "successCount" \in DOMAIN store[j]
           /\ "failCount" \in DOMAIN store[j]
           /\ store[j].successCount = Cardinality(EntriesWith(j, "complete"))
           /\ store[j].failCount = Cardinality(EntriesWith(j, "failed"))

\* The positions of generatePdfs before its browser is registered.
PreRegistrationPcs == {"mkdir", "ujsProcW", "ujsProcR", "launch"}

\* C36: once cancelJob has returned true for a job whose routine has not
\* registered a browser yet, the routine launches no browser for that job,
\* writes no `processing` status and starts on no URL.
C36_CancelBeforeLaunchStops ==
    [][\A k \in CallIds :
          (/\ calls[k].pc = "done"
           /\ calls[k].result
           /\ gen[calls[k].jobId].pc \in PreRegistrationPcs)
          => /\ browser'[calls[k].jobId] = "none"
             /\ gen'[calls[k].jobId].pc # "newContext"
             /\ store'[calls[k].jobId].status = "processing"
                   => store[calls[k].jobId].status = "processing"]_vars

\* C37: a urlStatuses entry carries an error message if and only if its
\* status is `failed`.
C37_ErrorIffFailed ==
    \A j \in Jobs : \A i \in UrlIndexes(j) :
        (store[j].urlStatuses[i].error # {}) <=> (store[j].urlStatuses[i].status = "failed")

\* After a cancelJob write, one entry is `failed` and the other is not.
C37_Witness ==
    \E j \in Jobs :
        /\ Len(store[j].urls) = 2
        /\ store[j].urlStatuses[1].status = "failed"
        /\ store[j].urlStatuses[1].error # {}
        /\ store[j].urlStatuses[2].status = "processing"
        /\ store[j].status = "cancelled"

\* ceil(h / 100), and at least one.
MaxSteps(h) == IF h = 0 THEN 1 ELSE (h + ScrollDistance - 1) \div ScrollDistance

\* C34: autoScroll reads the scrollable height at every step and ends at the
\* first step whose accumulated distance (a multiple of 100) is >= the
\* height read at that step; on a page that never exceeds H it ends after
\* at most ceil(H/100) steps, and after at least one.
C34_ScrollTerminates ==
    scroll.pc # "idle"
    => /\ scroll.totalHeight = ScrollDistance * scroll.steps
       /\ scroll.steps <= MaxSteps(scroll.maxHeight)
       /\ scroll.pc = "done"
             => /\ scroll.steps >= 1
                /\ scroll.totalHeight >= scroll.scrollHeight
       /\ scroll.pc = "run"
             => /\ scroll.steps < MaxSteps(scroll.maxHeight)
                /\ scroll.steps >= 1 => scroll.totalHeight < scroll.scrollHeight

\* The page grew while it was scrolled: the loop ended at the third step,
\* the last one allowed on a page of at most 300 pixels.
C34_Witness ==
    /\ scroll.pc = "done"
    /\ scroll.maxHeight = 300
    /\ scroll.steps = 3
    /\ scroll.scrollHeight = 250

\* pollJobStatus is between two status requests or waits for a response.
Polling == client.pc \in {"statusSent", "sleep"}

\* C38: pollJobStatus has one status request pending at a time, stops at
\* the first response with completed = true and returns the successCount
\* and failCount of that response (0 for a count the response does not
\* carry); it sends no status request for the job afterwards.
C38_PollStopsAtCompleted ==
    /\ [](client.pc # "idle"
          => /\ client.isDone <=> client.pc = "returned"
             /\ client.isDone
                   => /\ reply = NoReply
                      /\ client.status.completed
                      /\ client.result.successCount
                            = Count(client.status, "successCount")
                      /\ client.result.failCount = Count(client.status, "failCount")
             /\ (Polling /\ client.status # Undefined) => ~client.status.completed
             /\ reply # NoReply => client.pc = "statusSent")
    /\ [][(reply' # reply /\ reply'.op = "status")
          => /\ client.pc = "statusSent"
             /\ reply = NoReply
             /\ ~client.isDone
             /\ reply'.jobId = client.apiJobId]_vars

\* pollJobStatus returned the counts of a job that ended completed with one
\* URL failed and one captured.
C38_Witness ==
    /\ client.pc = "returned"
    /\ client.status.status = "completed"
    /\ client.result = [successCount |-> 1, failCount |-> 1]
    /\ client.urlStatuses[1].status = "failed"
    /\ client.urlStatuses[2].status = "complete"

\* C39: while the job is being processed and polling has not seen
\* completed = true, activating Cancel in the processing view, or
\* unmounting that view, sends a cancel request with the job's id.
C39_CancelReachesServer ==
    [][(/\ Polling
        /\ ~store[client.apiJobId].completed
        /\ \/ client'.clicks = client.clicks + 1
           \/ client'.view # "processing")
       => client'.cancelSent = Append(client.cancelSent, client.apiJobId)]_vars

\* C40: when polling has seen the job completed, the processing view has
\* called onComplete exactly once, with the successCount and failCount of
\* the server and the job id, and Home shows the completed view.
C40_OnCompleteOnce ==
    (client.pc # "idle" /\ client.isDone)
    => /\ client.onCompleteCalls
             = <<[successful |-> client.result.successCount,
                  failed |-> client.result.failCount,
                  outputPath |-> client.outputPath,
                  jobId |-> client.apiJobId]>>
       /\ client.view = "completed"
====
